---- MODULE Spec2Model ----
(***************************************************************************)
(* Bitbucket Server client (server/events/vcs/bitbucketserver/client.go). *)
(*                                                                         *)
(* One behaviour is one invocation of a public operation of Client against *)
(* a Bitbucket Server.  A step is one HTTP round trip of makeRequest       *)
(* together with the client code that runs up to the next round trip (or   *)
(* up to the return).  The server's answers are the environment: every     *)
(* round trip draws its response from a finite set.                        *)
(***************************************************************************)
EXTENDS Integers, Sequences, FiniteSets, TLC

VARIABLES
    client,         \* the Client built by NewClient: its fields
    calls,          \* number of invocations made on the client so far
    op,             \* the operation invoked in this behaviour
    args,           \* its arguments
    pc,             \* position of the invocation: "call", a label inside, "done", "panic"
    reqs,           \* HTTP requests issued so far, in order
    resps,          \* the transport's answers so far (resps[k] answers reqs[k])
    out,            \* what the last call of makeRequest returned
    ret,            \* the returned value, once pc = "done"
    i,              \* GetModifiedFiles: loop counter
    nextPageStart,  \* GetModifiedFiles: local nextPageStart
    files,          \* GetModifiedFiles: local files
    chunks,         \* CreateComment: local comments; SplitComment: its result
    version,        \* MergePull: *pullResp.Version
    srv             \* the server: pull request version/state, head branch, paging mode

vars == <<client, calls, op, args, pc, reqs, resps, out, ret, i, nextPageStart, files, chunks,
          version, srv>>

----------------------------------------------------------------------------
(* Values *)

Nil == "nil"            \* Go nil error

\* A pointer field after decoding: None is the nil pointer (the server did not
\* send the field), Some(v) points to v.
None == <<>>
Some(v) == <<v>>
Opt(S) == {None} \cup {Some(v) : v \in S}
Deref(p) == p[1]

\* Response bodies.  NoBody is makeRequest's nil []byte, EmptyBody a body of
\* no bytes, ErrorText some text, Garbage a body json.Unmarshal rejects.
NoBody == [kind |-> "none"]
EmptyBody == [kind |-> "empty"]
Garbage == [kind |-> "garbage"]
ErrorText == [kind |-> "text"]

\* const maxCommentLength = 32768
maxCommentLength == 32768

\* maxLoops := 1000
maxLoops == 1000

\* Number of page fetches whose content the server chooses freely.
MaxVaried == 2

\* Largest pull request version the server reaches.
MaxVersion == 2

\* The arguments NewClient is given, and the Client it returns for them (the
\* base URL has a scheme and no trailing slash, so it is stored as given).
AtlantisURL == "https://atlantis.corp"

NewClient ==
    [HTTPClient |-> "httpClient",
     Username |-> "atlantis",
     Password |-> "secret",
     BaseURL |-> "https://bitbucket.corp:7990",
     AtlantisURL |-> AtlantisURL]

Paths == {"a.tf", "b.tf"}
Offsets == {1, 25}

StatusCodes == {200, 201, 202, 204, 302, 404, 409, 500}

----------------------------------------------------------------------------
(* HTTP: the transport's answer to one request, and makeRequest *)

\* The transport's answer to one request: b.HTTPClient.Do fails, or it gives
\* a status and a body; reading that body (io.ReadAll) can fail.
TransportError == [doErr |-> TRUE, status |-> 0, body |-> NoBody, readErr |-> FALSE]
HTTP(status, body) == [doErr |-> FALSE, status |-> status, body |-> body, readErr |-> FALSE]
ReadError(status) == [doErr |-> FALSE, status |-> status, body |-> ErrorText, readErr |-> TRUE]

Responses(codes, bodies) ==
    {TransportError}
    \cup {HTTP(c, b) : c \in codes, b \in bodies}
    \cup {ReadError(c) : c \in codes}

Request(method, resource, arg) ==
    [method |-> method, resource |-> resource, arg |-> arg]

\* Every 2xx status taken for a success.
IsSuccessStatusAny2xx(status) == status >= 200 /\ status < 300

\* resp.StatusCode != http.StatusOK && != http.StatusCreated && != 204 is failure
IsSuccessStatus(status) == status = 200 \/ status = 201 \/ status = 204

\* makeRequest's return value for the transport's answer resp:
\* (respBody, nil) or (nil, err).
MakeRequest(resp) ==
    IF resp.doErr THEN [body |-> NoBody, err |-> "transport"]
    ELSE IF ~IsSuccessStatus(resp.status) THEN [body |-> NoBody, err |-> "status"]
    ELSE IF resp.readErr THEN [body |-> NoBody, err |-> "read"]
    ELSE [body |-> resp.body, err |-> Nil]

----------------------------------------------------------------------------
(* Project key *)

\* A clone URL is kept as its "/"-separated segments:
\* http://bitbucket.corp:7990/scm/at/atlantis-example.git is
\* <<"http:", "", "bitbucket.corp:7990", "scm", "at", "atlantis-example.git">>.
RepoNames == {"atlantis-example"}
CloneURLs ==
    { <<"http:", "", "bitbucket.corp:7990", "scm", "at", "atlantis-example.git">>,
      <<"http:", "", "bitbucket.corp:7990", "scm", "at", "other.git">>,
      <<"at", "atlantis-example.git">> }
Repos == [Name : RepoNames, SanitizedCloneURL : CloneURLs]

\* The segments of cloneURL at which ".*/(.*?)/<repoName>\.git" can end its
\* match: the segment is <repoName>.git, the one before it is the capture, and
\* a "/" precedes the capture.
KeyMatches(repoName, cloneURL) ==
    {j \in 3..Len(cloneURL) : cloneURL[j] = repoName \o ".git"}

MaxOf(S) == CHOOSE x \in S : \A y \in S : y <= x

\* GetProjectKey: (matches[1], nil), or ("", err) when the regex does not match.
\* The leading ".*" is greedy, so the capture is the segment before the last
\* match.
GetProjectKey(repoName, cloneURL) ==
    IF KeyMatches(repoName, cloneURL) = {}
    THEN [key |-> "", err |-> "projectKey"]
    ELSE [key |-> cloneURL[MaxOf(KeyMatches(repoName, cloneURL)) - 1], err |-> Nil]

----------------------------------------------------------------------------
(* Response shapes and their validation *)

\* One entry of Changes.Values: path.toString and srcPath.toString.
ChangeEntries == [path : Opt(Paths), srcPath : Opt(Paths)]

\* The values of one page: none, one entry, or one of two plain two-entry pages.
PageValues ==
    {<<>>} \cup {<<e>> : e \in ChangeEntries}
    \cup {<<[path |-> Some(p), srcPath |-> None], [path |-> Some("a.tf"), srcPath |-> None]>> : p \in Paths}

\* A decoded Changes body.
Pages ==
    [kind : {"changes"}, values : PageValues,
     isLastPage : Opt(BOOLEAN), nextPageStart : Opt(Offsets)]

\* json.Unmarshal(resp, &changes) succeeds
DecodesAsChanges(body) == body.kind = "changes"

\* validator.New().Struct(changes): the required fields are present (the
\* current path of every entry, the is-last-page flag); the next page start
\* and the prior path are optional.
ValidChanges(body) ==
    /\ body.isLastPage # None
    /\ \A k \in 1..Len(body.values) : body.values[k].path # None

\* An entry that gives its path only, renamed or not.
EntryPathsNoSrcPath(v) == <<Deref(v.path)>>

\* The paths one entry appends to files: its path, then its source path if it
\* was renamed.
EntryPaths(v) ==
    IF v.srcPath # None THEN <<Deref(v.path), Deref(v.srcPath)>> ELSE <<Deref(v.path)>>

\* for _, v := range changes.Values { files = append(files, ...) }
RECURSIVE AppendValues(_, _)
AppendValues(fs, values) ==
    IF values = <<>> THEN fs
    ELSE AppendValues(fs \o EntryPaths(Head(values)), Tail(values))

\* The positions the loop that ensures all files are unique appends from:
\* f = fs[k] is appended iff hash[f] is not yet set, that is, iff no earlier
\* position holds the same file.
KeptPositions(fs) == {k \in 1..Len(fs) : \A j \in 1..(k - 1) : fs[j] # fs[k]}

\* The n-th smallest element of the set of positions S.
NthOf(S, n) == CHOOSE k \in S : Cardinality({j \in S : j < k}) = n - 1

\* unique after that loop: the files at the kept positions, in their order.
Unique(fs) ==
    [n \in 1..Cardinality(KeptPositions(fs)) |-> fs[NthOf(KeptPositions(fs), n)]]

----------------------------------------------------------------------------
(* The invocation *)

NoRet == [err |-> Nil, files |-> <<>>]
NoOut == [body |-> NoBody, err |-> Nil]

\* return nil, err / return err
Fail(e) == [err |-> e, files |-> <<>>]

\* The server side of a changes listing.  In mode "script" the server chooses
\* the first MaxVaried pages freely and then ends the listing; in mode "stuck"
\* it serves the same page, which is not the last, for ever.
StuckPages ==
    {p \in Pages : ValidChanges(p) /\ p.isLastPage = Some(FALSE) /\ p.nextPageStart # None}

EmptyPage ==
    [kind |-> "changes", values |-> <<>>, isLastPage |-> Some(TRUE), nextPageStart |-> None]

Servers ==
    [mode : {"script"}, page : {EmptyPage}, version : {0}, merged : {FALSE}, branch : {TRUE}]
    \cup [mode : {"stuck"}, page : StuckPages, version : {0}, merged : {FALSE}, branch : {TRUE}]

\* The bodies the server can send for the fetch numbered n (from 0).
ChangesBodies(n) ==
    IF srv.mode = "stuck" THEN {srv.page}
    ELSE IF n < MaxVaried THEN Pages \cup {Garbage}
    ELSE {p \in Pages : p.isLastPage = Some(TRUE)} \cup {Garbage}

\* The transport's answers to a page fetch.
ChangesResponses(n) ==
    {TransportError, ReadError(200), HTTP(404, ErrorText)}
    \cup {HTTP(200, b) : b \in ChangesBodies(n)}

InitFiles ==
    /\ client = NewClient
    /\ calls = 1
    /\ chunks = <<>>
    /\ op = "GetModifiedFiles"
    /\ args \in [repo : Repos]
    /\ pc = "call"
    /\ reqs = <<>>
    /\ resps = <<>>
    /\ out = NoOut
    /\ ret = NoRet
    /\ i = 0
    /\ nextPageStart = 0
    /\ files = <<>>
    /\ version = 0
    /\ srv \in Servers

\* GetModifiedFiles up to its loop: the project key, nextPageStart := 0.
GetModifiedFilesEnter ==
    /\ op = "GetModifiedFiles"
    /\ pc = "call"
    /\ LET k == GetProjectKey(args.repo.Name, args.repo.SanitizedCloneURL) IN
         IF k.err # Nil
         THEN /\ pc' = "done"
              /\ ret' = Fail(k.err)
         ELSE /\ pc' = "loop"
              /\ ret' = ret
    /\ i' = 0
    /\ nextPageStart' = 0
    /\ files' = <<>>
    /\ UNCHANGED <<client, calls, chunks, op, args, reqs, resps, out, version, srv>>

\* A failed fetch that still hands back the files of the earlier pages.
FetchFailKeepFiles(e) == [err |-> e, files |-> files]

\* return nil, err
FetchFail(e) == [err |-> e, files |-> <<>>]

\* The loop capped at 100 iterations.
LoopContinuesTo100(n) == n < 100

\* i < maxLoops
LoopContinues(n) == n < maxLoops

\* An iteration that never moves nextPageStart on.
FetchStepKeepOffset(resp) ==
    LET r == MakeRequest(resp)
        fs == AppendValues(files, r.body.values)
    IN  IF r.err # Nil
        THEN [pc |-> "done", ret |-> FetchFail(r.err), files |-> files, nps |-> nextPageStart, i |-> i]
        ELSE IF ~DecodesAsChanges(r.body)
        THEN [pc |-> "done", ret |-> FetchFail("parse"), files |-> files, nps |-> nextPageStart, i |-> i]
        ELSE IF ~ValidChanges(r.body)
        THEN [pc |-> "done", ret |-> FetchFail("missing fields"), files |-> files, nps |-> nextPageStart, i |-> i]
        ELSE IF Deref(r.body.isLastPage)
        THEN [pc |-> "done", ret |-> [err |-> Nil, files |-> Unique(fs)],
              files |-> fs, nps |-> nextPageStart, i |-> i]
        ELSE IF r.body.nextPageStart = None
        THEN [pc |-> "panic", ret |-> ret, files |-> fs, nps |-> nextPageStart, i |-> i]
        ELSE IF LoopContinues(i + 1)
        THEN [pc |-> "loop", ret |-> ret, files |-> fs,
              nps |-> nextPageStart, i |-> i + 1]
        ELSE [pc |-> "done", ret |-> [err |-> Nil, files |-> Unique(fs)],
              files |-> fs, nps |-> nextPageStart, i |-> i + 1]

\* What one iteration of the loop does with the answer resp to its fetch:
\* the next position, the locals and the return value.
FetchStep(resp) ==
    LET r == MakeRequest(resp)
        fs == AppendValues(files, r.body.values)
    IN  IF r.err # Nil
        THEN [pc |-> "done", ret |-> FetchFail(r.err), files |-> files, nps |-> nextPageStart, i |-> i]
        ELSE IF ~DecodesAsChanges(r.body)
        THEN [pc |-> "done", ret |-> FetchFail("parse"), files |-> files, nps |-> nextPageStart, i |-> i]
        ELSE IF ~ValidChanges(r.body)
        THEN [pc |-> "done", ret |-> FetchFail("missing fields"), files |-> files, nps |-> nextPageStart, i |-> i]
        ELSE IF Deref(r.body.isLastPage)
        THEN [pc |-> "done", ret |-> [err |-> Nil, files |-> Unique(fs)],
              files |-> fs, nps |-> nextPageStart, i |-> i]
        ELSE IF r.body.nextPageStart = None
        THEN [pc |-> "panic", ret |-> ret, files |-> fs, nps |-> nextPageStart, i |-> i]
        ELSE IF LoopContinues(i + 1)
        THEN [pc |-> "loop", ret |-> ret, files |-> fs,
              nps |-> Deref(r.body.nextPageStart), i |-> i + 1]
        ELSE [pc |-> "done", ret |-> [err |-> Nil, files |-> Unique(fs)],
              files |-> fs, nps |-> Deref(r.body.nextPageStart), i |-> i + 1]

\* One iteration of the loop of GetModifiedFiles, and the code after the loop
\* when the iteration ends it.
GetModifiedFilesFetch ==
    /\ op = "GetModifiedFiles"
    /\ pc = "loop"
    /\ \E resp \in ChangesResponses(Len(reqs)) :
         /\ reqs' = Append(reqs, Request("GET", "changes", Some(nextPageStart)))
         /\ resps' = Append(resps, resp)
         /\ out' = MakeRequest(resp)
         /\ pc' = FetchStep(resp).pc
         /\ ret' = FetchStep(resp).ret
         /\ files' = FetchStep(resp).files
         /\ nextPageStart' = FetchStep(resp).nps
         /\ i' = FetchStep(resp).i
    /\ UNCHANGED <<client, calls, chunks, op, args, version, srv>>

NextFiles == GetModifiedFilesEnter \/ GetModifiedFilesFetch

SpecFiles == InitFiles /\ [][NextFiles]_vars

----------------------------------------------------------------------------
(* MergePull *)

Versions == 0..MaxVersion

ReviewerLists == {<<>>, <<[approved |-> Some(TRUE)]>>, <<[approved |-> Some(FALSE)]>>}

\* A decoded PullRequest body.
PullRequests == [kind : {"pull"}, version : Opt(Versions), reviewers : ReviewerLists]

\* json.Unmarshal(resp, &pullResp) succeeds
DecodesAsPullRequest(body) == body.kind = "pull"

\* validator.New().Struct(pullResp): the version, a required field, is present.
ValidPullRequest(body) == body.version # None

\* The server's answers to GET pull-request: the pull request at its current
\* version, a body without the version, a body that is no JSON, a failure.
PullResponses ==
    {TransportError, ReadError(200), HTTP(404, ErrorText), HTTP(200, Garbage)}
    \cup {HTTP(200, b) : b \in {q \in PullRequests : q.version \in {None, Some(srv.version)}}}

\* The server's handling of POST merge?version=v: the answer and the server
\* after it.  The merge is applied only to an open pull request at version v
\* (the reply may still be lost); a stale version is a conflict.
MergeOutcomes(v) ==
    (IF v = srv.version /\ ~srv.merged
     THEN {[resp |-> r, srv |-> [srv EXCEPT !.merged = TRUE]]
             : r \in {HTTP(200, ErrorText), TransportError}}
     ELSE {[resp |-> HTTP(409, ErrorText), srv |-> srv]})
    \cup {[resp |-> r, srv |-> srv] : r \in {HTTP(500, ErrorText), TransportError}}

\* The server's handling of DELETE branches: the branch is deleted (204), or
\* the request fails and the branch stays.
DeleteOutcomes ==
    {[resp |-> HTTP(204, EmptyBody), srv |-> [srv EXCEPT !.branch = FALSE]]}
    \cup {[resp |-> r, srv |-> srv] : r \in {HTTP(400, ErrorText), HTTP(500, ErrorText), TransportError}}

InitMerge ==
    /\ client = NewClient
    /\ calls = 1
    /\ chunks = <<>>
    /\ op = "MergePull"
    /\ args \in [repo : Repos, deleteOnMerge : BOOLEAN]
    /\ pc = "call"
    /\ reqs = <<>>
    /\ resps = <<>>
    /\ out = NoOut
    /\ ret = NoRet
    /\ i = 0
    /\ nextPageStart = 0
    /\ files = <<>>
    /\ version = 0
    /\ srv = [mode |-> "script", page |-> EmptyPage, version |-> 0, merged |-> FALSE, branch |-> TRUE]

\* Somebody else changes the open pull request: its version moves on.
ExternalModify ==
    /\ op = "MergePull"
    /\ pc \in {"call", "read", "write", "delete"}
    /\ ~srv.merged
    /\ srv.version < MaxVersion
    /\ srv' = [srv EXCEPT !.version = srv.version + 1]
    /\ UNCHANGED <<client, calls, chunks, op, args, pc, reqs, resps, out, ret, i, nextPageStart, files, version>>

\* MergePull up to its first request: the project key.
MergePullEnter ==
    /\ op = "MergePull"
    /\ pc = "call"
    /\ LET k == GetProjectKey(args.repo.Name, args.repo.SanitizedCloneURL) IN
         IF k.err # Nil
         THEN /\ pc' = "done"
              /\ ret' = Fail(k.err)
         ELSE /\ pc' = "read"
              /\ ret' = ret
    /\ UNCHANGED <<client, calls, chunks, op, args, reqs, resps, out, i, nextPageStart, files, version, srv>>

\* A read that takes the version without checking that it is there (0 when
\* it is not).
ReadStepNoValidation(resp) ==
    LET r == MakeRequest(resp) IN
        IF r.err # Nil THEN [pc |-> "done", ret |-> Fail(r.err), version |-> version]
        ELSE IF ~DecodesAsPullRequest(r.body)
        THEN [pc |-> "done", ret |-> Fail("parse"), version |-> version]
        ELSE [pc |-> "write", ret |-> ret,
              version |-> IF r.body.version = None THEN 0 ELSE Deref(r.body.version)]

\* What MergePull does with the answer to its GET: return the error, or keep
\* *pullResp.Version and go on to the merge.
ReadStep(resp) ==
    LET r == MakeRequest(resp) IN
        IF r.err # Nil THEN [pc |-> "done", ret |-> Fail(r.err), version |-> version]
        ELSE IF ~DecodesAsPullRequest(r.body)
        THEN [pc |-> "done", ret |-> Fail("parse"), version |-> version]
        ELSE IF ~ValidPullRequest(r.body)
        THEN [pc |-> "done", ret |-> Fail("missing fields"), version |-> version]
        ELSE [pc |-> "write", ret |-> ret, version |-> Deref(r.body.version)]

\* The GET of the pull request, which gives the version.
MergePullRead ==
    /\ op = "MergePull"
    /\ pc = "read"
    /\ \E resp \in PullResponses :
         /\ reqs' = Append(reqs, Request("GET", "pull-request", None))
         /\ resps' = Append(resps, resp)
         /\ out' = MakeRequest(resp)
         /\ pc' = ReadStep(resp).pc
         /\ ret' = ReadStep(resp).ret
         /\ version' = ReadStep(resp).version
    /\ UNCHANGED <<client, calls, chunks, op, args, i, nextPageStart, files, srv>>

\* A merge request that always carries version 0.
MergeRequestVersionZero(v) == Request("POST", "merge", Some(0))

\* The merge request: .../merge?version=%d with *pullResp.Version
MergeRequest(v) == Request("POST", "merge", Some(v))

\* A write whose error is dropped.
WriteStepIgnoreError(resp, deleteSourceBranchOnMerge) ==
    IF deleteSourceBranchOnMerge THEN [pc |-> "delete", ret |-> ret]
    ELSE [pc |-> "done", ret |-> [err |-> Nil, files |-> <<>>]]

\* A write followed by the deletion whatever the options say.
WriteStepAlwaysDelete(resp, deleteSourceBranchOnMerge) ==
    IF MakeRequest(resp).err # Nil THEN [pc |-> "done", ret |-> Fail(MakeRequest(resp).err)]
    ELSE [pc |-> "delete", ret |-> ret]

\* What MergePull does with the answer to its POST: return the error, go on
\* to delete the source branch if that was asked for, or return nil.
WriteStep(resp, deleteSourceBranchOnMerge) ==
    LET r == MakeRequest(resp) IN
        IF r.err # Nil THEN [pc |-> "done", ret |-> Fail(r.err)]
        ELSE IF deleteSourceBranchOnMerge THEN [pc |-> "delete", ret |-> ret]
        ELSE [pc |-> "done", ret |-> [err |-> Nil, files |-> <<>>]]

\* The POST that merges.
MergePullWrite ==
    /\ op = "MergePull"
    /\ pc = "write"
    /\ \E o \in MergeOutcomes(Deref(MergeRequest(version).arg)) :
         /\ reqs' = Append(reqs, MergeRequest(version))
         /\ resps' = Append(resps, o.resp)
         /\ out' = MakeRequest(o.resp)
         /\ srv' = o.srv
         /\ pc' = WriteStep(o.resp, args.deleteOnMerge).pc
         /\ ret' = WriteStep(o.resp, args.deleteOnMerge).ret
    /\ UNCHANGED <<client, calls, chunks, op, args, i, nextPageStart, files, version>>

\* A deletion whose error is lost (the outer err, nil, is returned).
DeleteStepOuterErr(resp) == [pc |-> "done", ret |-> [err |-> Nil, files |-> <<>>]]

\* What MergePull does with the answer to its DELETE: return the error, or
\* return the outer err, which is nil there.
DeleteStep(resp) ==
    LET r == MakeRequest(resp) IN
        IF r.err # Nil THEN [pc |-> "done", ret |-> Fail(r.err)]
        ELSE [pc |-> "done", ret |-> [err |-> Nil, files |-> <<>>]]

\* The DELETE of the source branch.
MergePullDelete ==
    /\ op = "MergePull"
    /\ pc = "delete"
    /\ \E o \in DeleteOutcomes :
         /\ reqs' = Append(reqs, Request("DELETE", "branches", None))
         /\ resps' = Append(resps, o.resp)
         /\ out' = MakeRequest(o.resp)
         /\ srv' = o.srv
         /\ pc' = DeleteStep(o.resp).pc
         /\ ret' = DeleteStep(o.resp).ret
    /\ UNCHANGED <<client, calls, chunks, op, args, i, nextPageStart, files, version>>

NextMerge ==
    \/ MergePullEnter
    \/ MergePullRead
    \/ MergePullWrite
    \/ MergePullDelete
    \/ ExternalModify

SpecMerge == InitMerge /\ [][NextMerge]_vars

----------------------------------------------------------------------------
(* UpdateStatus *)

\* models.CommitStatus: the three statuses, and a value that is none of them.
CommitStatuses == {"pending", "success", "failed", "other"}

StatusURLs == {"", "https://ci.corp/job/1"}

\* A mapping whose default is the successful state.
BBStateDefaultSuccessful(status) ==
    CASE status = "pending" -> "INPROGRESS"
      [] status = "failed" -> "FAILED"
      [] OTHER -> "SUCCESSFUL"

\* bbState := "FAILED"; switch status { ... }
BBState(status) ==
    CASE status = "pending" -> "INPROGRESS"
      [] status = "success" -> "SUCCESSFUL"
      [] status = "failed" -> "FAILED"
      [] OTHER -> "FAILED"

\* The JSON body of the build status: key, url (b.AtlantisURL when the url
\* given is empty), state and description.
StatusBody(status, src, description, url) ==
    [key |-> src,
     url |-> IF url = "" THEN client.AtlantisURL ELSE url,
     state |-> BBState(status),
     description |-> description]

InitStatus ==
    /\ client = NewClient
    /\ calls = 1
    /\ chunks = <<>>
    /\ op = "UpdateStatus"
    /\ args \in [status : CommitStatuses, src : {"atlantis/plan"},
                 description : {"Plan succeeded."}, url : StatusURLs]
    /\ pc = "call"
    /\ reqs = <<>>
    /\ resps = <<>>
    /\ out = NoOut
    /\ ret = NoRet
    /\ i = 0
    /\ nextPageStart = 0
    /\ files = <<>>
    /\ version = 0
    /\ srv = [mode |-> "script", page |-> EmptyPage, version |-> 0, merged |-> FALSE, branch |-> TRUE]

\* UpdateStatus that keeps the url it was given in b.AtlantisURL.
UpdateStatusStoresURL ==
    /\ op = "UpdateStatus"
    /\ pc = "call"
    /\ \E resp \in Responses(StatusCodes, {EmptyBody, ErrorText}) :
         /\ reqs' = Append(reqs, Request("POST", "build-status",
                Some(StatusBody(args.status, args.src, args.description, args.url))))
         /\ resps' = Append(resps, resp)
         /\ out' = MakeRequest(resp)
         /\ ret' = [err |-> MakeRequest(resp).err, files |-> <<>>]
    /\ pc' = "done"
    /\ client' = [client EXCEPT !.AtlantisURL = IF args.url = "" THEN @ ELSE args.url]
    /\ UNCHANGED <<calls, chunks, op, args, i, nextPageStart, files, version, srv>>

\* UpdateStatus: one POST of the build status; its error is the result.
UpdateStatus ==
    /\ op = "UpdateStatus"
    /\ pc = "call"
    /\ \E resp \in Responses(StatusCodes, {EmptyBody, ErrorText}) :
         /\ reqs' = Append(reqs, Request("POST", "build-status",
                Some(StatusBody(args.status, args.src, args.description, args.url))))
         /\ resps' = Append(resps, resp)
         /\ out' = MakeRequest(resp)
         /\ ret' = [err |-> MakeRequest(resp).err, files |-> <<>>]
    /\ pc' = "done"
    /\ UNCHANGED <<client, calls, chunks, op, args, i, nextPageStart, files, version, srv>>

NextStatus == UpdateStatus

SpecStatus == InitStatus /\ [][NextStatus]_vars

----------------------------------------------------------------------------
(* CreateComment *)

\* A string is kept as the pieces it was put together from: a piece is the
\* characters from+1..to of one of the strings the operation starts with (the
\* comment, sepEnd, sepStart), whose characters are taken to be all different.
\* Neighbouring pieces that continue one another are one piece and no piece is
\* empty, so two strings are equal exactly when they are the same pieces.
Piece(src, from, to) == [src |-> src, from |-> from, to |-> to]

\* The string of n characters named src.
Str(src, n) == IF n = 0 THEN <<>> ELSE <<Piece(src, 0, n)>>

\* len(s)
RECURSIVE StrLen(_)
StrLen(s) == IF s = <<>> THEN 0 ELSE (s[1].to - s[1].from) + StrLen(Tail(s))

\* s + t
Cat(s, t) ==
    IF s = <<>> THEN t
    ELSE IF t = <<>> THEN s
    ELSE IF s[Len(s)].src = t[1].src /\ s[Len(s)].to = t[1].from
    THEN SubSeq(s, 1, Len(s) - 1) \o <<Piece(t[1].src, s[Len(s)].from, t[1].to)>> \o Tail(t)
    ELSE s \o t

MinOf(S) == CHOOSE x \in S : \A y \in S : x <= y

\* s[lo:hi]
RECURSIVE Slice(_, _, _)
Slice(s, lo, hi) ==
    IF s = <<>> \/ hi <= 0 THEN <<>>
    ELSE LET n == s[1].to - s[1].from
             a == MaxOf({lo, 0})
             b == MinOf({hi, n})
             head == IF a < b THEN <<Piece(s[1].src, s[1].from + a, s[1].from + b)>> ELSE <<>>
         IN  Cat(head, Slice(Tail(s), lo - n, hi - n))

\* len(sepEnd), len(sepStart)
SepEndLen == 89
SepStartLen == 41

\* sepEnd := "\n```\n**Warning**: Output length greater than max comment size. Continued in next comment."
sepEnd == Str("sepEnd", SepEndLen)

\* sepStart := "Continued from previous comment.\n```diff\n"
sepStart == Str("sepStart", SepStartLen)

\* Longest comment given to SplitComment on its own, longest separator given
\* to it, and the room its limit leaves for text beyond the two separators.
MaxLen == 5
MaxSep == 2
MaxRoom == 2

\* common.SplitComment(comment, maxSize, sepEnd, sepStart, 0, ""): a comment
\* within maxSize is the only chunk; a longer one is cut into portions of at
\* most maxSize - len(sepEnd) - len(sepStart) characters, the first portion
\* taking what the full ones leave, every chunk but the first opened by
\* sepStart and every chunk but the last closed by sepEnd.
SplitComment(comment, maxSize, end, start) ==
    IF StrLen(comment) <= maxSize THEN <<comment>>
    ELSE LET maxWithSep == maxSize - StrLen(end) - StrLen(start)
             numComments == (StrLen(comment) + maxWithSep - 1) \div maxWithSep
             upTo(j) == StrLen(comment) - (numComments - j) * maxWithSep
             downFrom(j) == MaxOf({0, upTo(j) - maxWithSep})
         IN  [j \in 1..numComments |->
                Cat(IF j > 1 THEN start ELSE <<>>,
                    Cat(Slice(comment, downFrom(j), upTo(j)),
                        IF j < numComments THEN end ELSE <<>>))]

\* Comments at and around the limit, and longer ones of two and three chunks.
CommentLengths ==
    {0, 1, maxCommentLength, maxCommentLength + 1, 40000,
     2 * (maxCommentLength - SepEndLen - SepStartLen),
     2 * (maxCommentLength - SepEndLen - SepStartLen) + 1, 100000}

Comments == {Str("comment", n) : n \in CommentLengths}

\* The inputs of SplitComment on its own: short comments, short separators,
\* limits that leave room for text.
SplitArgs ==
    {a \in [comment : {Str("comment", n) : n \in 0..MaxLen},
            maxSize : 1..(2 * MaxSep + MaxRoom),
            sepEnd : {Str("sepEnd", n) : n \in 1..MaxSep},
            sepStart : {Str("sepStart", n) : n \in 1..MaxSep}] :
        /\ a.maxSize > StrLen(a.sepEnd) + StrLen(a.sepStart)
        /\ a.maxSize <= StrLen(a.sepEnd) + StrLen(a.sepStart) + MaxRoom}

InitComment ==
    /\ client = NewClient
    /\ calls = 1
    /\ chunks = <<>>
    /\ \/ op = "CreateComment" /\ args \in [repo : Repos, comment : Comments]
       \/ op = "SplitComment" /\ args \in SplitArgs
    /\ pc = "call"
    /\ reqs = <<>>
    /\ resps = <<>>
    /\ out = NoOut
    /\ ret = NoRet
    /\ i = 0
    /\ nextPageStart = 0
    /\ files = <<>>
    /\ version = 0
    /\ srv = [mode |-> "script", page |-> EmptyPage, version |-> 0, merged |-> FALSE,
              branch |-> TRUE, comments |-> <<>>]

\* SplitComment called on its own.
SplitCommentCall ==
    /\ op = "SplitComment"
    /\ pc = "call"
    /\ chunks' = SplitComment(args.comment, args.maxSize, args.sepEnd, args.sepStart)
    /\ pc' = "done"
    /\ UNCHANGED <<client, calls, op, args, reqs, resps, out, ret, i, nextPageStart, files,
                   version, srv>>

\* A split at a limit one character above the maximum.
CreateCommentChunksOverLimit(comment) ==
    SplitComment(comment, maxCommentLength + 1, sepEnd, sepStart)

\* A split at a limit one character below the maximum.
CreateCommentChunksUnderLimit(comment) ==
    SplitComment(comment, maxCommentLength - 1, sepEnd, sepStart)

\* comments := common.SplitComment(comment, maxCommentLength, sepEnd, sepStart, 0, "")
CreateCommentChunks(comment) ==
    SplitComment(comment, maxCommentLength, sepEnd, sepStart)

\* CreateComment up to its loop: the chunks.
CreateCommentEnter ==
    /\ op = "CreateComment"
    /\ pc = "call"
    /\ chunks' = CreateCommentChunks(args.comment)
    /\ i' = 1
    /\ IF CreateCommentChunks(args.comment) = <<>>
       THEN pc' = "done" /\ ret' = Fail(Nil)
       ELSE pc' = "post" /\ ret' = ret
    /\ UNCHANGED <<client, calls, op, args, reqs, resps, out, nextPageStart, files, version, srv>>

\* The server's handling of POST comments: the comment is stored (the reply
\* may still be lost or unreadable), or the request fails and nothing is
\* stored.
CommentOutcomes(text) ==
    {[resp |-> r, srv |-> [srv EXCEPT !.comments = Append(@, text)]]
        : r \in {HTTP(201, EmptyBody), HTTP(200, EmptyBody), TransportError, ReadError(201)}}
    \cup {[resp |-> r, srv |-> srv]
        : r \in {HTTP(404, ErrorText), HTTP(500, ErrorText), TransportError}}

\* A loop that goes on to the next chunk whatever postComment returns.
PostStepIgnoreError(resp) ==
    IF i = Len(chunks) THEN [pc |-> "done", ret |-> Fail(MakeRequest(resp).err), i |-> i]
    ELSE [pc |-> "post", ret |-> ret, i |-> i + 1]

\* What CreateComment does with the answer to the POST of chunk i: return
\* the error, go on to the next chunk, or return nil after the last one.
PostStep(resp) ==
    LET r == MakeRequest(resp) IN
        IF r.err # Nil THEN [pc |-> "done", ret |-> Fail(r.err), i |-> i]
        ELSE IF i = Len(chunks) THEN [pc |-> "done", ret |-> Fail(Nil), i |-> i]
        ELSE [pc |-> "post", ret |-> ret, i |-> i + 1]

\* One round of the loop: postComment(repo, pullNum, c) for chunk i, which
\* derives the project key and then issues the POST.
CreateCommentPost ==
    /\ op = "CreateComment"
    /\ pc = "post"
    /\ LET k == GetProjectKey(args.repo.Name, args.repo.SanitizedCloneURL) IN
         IF k.err # Nil
         THEN /\ pc' = "done"
              /\ ret' = Fail(k.err)
              /\ UNCHANGED <<reqs, resps, out, i, srv>>
         ELSE \E o \in CommentOutcomes(chunks[i]) :
                /\ reqs' = Append(reqs, Request("POST", "comments", Some(chunks[i])))
                /\ resps' = Append(resps, o.resp)
                /\ out' = MakeRequest(o.resp)
                /\ srv' = o.srv
                /\ pc' = PostStep(o.resp).pc
                /\ ret' = PostStep(o.resp).ret
                /\ i' = PostStep(o.resp).i
    /\ UNCHANGED <<client, calls, chunks, op, args, nextPageStart, files, version>>

NextComment ==
    \/ SplitCommentCall
    \/ CreateCommentEnter
    \/ CreateCommentPost

SpecComment == InitComment /\ [][NextComment]_vars

----------------------------------------------------------------------------
(* PullIsApproved and PullIsMergeable *)

\* Largest number of reviewers of a pull request.
MaxReviewers == 2

\* The reviewers of a pull request, each with its approved flag.
ReviewerSeqs ==
    UNION {[1..n -> [approved : {Some(TRUE), Some(FALSE)}]] : n \in 0..MaxReviewers}

\* The bodies the server can send for the pull request.
ApprovalBodies ==
    [kind : {"pull"}, version : Opt({0}), reviewers : ReviewerSeqs] \cup {Garbage}

\* A decoded MergeStatus body.
MergeStatuses == [kind : {"merge"}, canMerge : Opt(BOOLEAN), conflicted : Opt(BOOLEAN)]

\* json.Unmarshal(resp, &mergeStatus) succeeds
DecodesAsMergeStatus(body) == body.kind = "merge"

\* validator.New().Struct(mergeStatus): both booleans, required fields, are
\* present.
ValidMergeStatus(body) == body.canMerge # None /\ body.conflicted # None

\* The result of PullIsApproved and of PullIsMergeable: the boolean and the
\* error.
Result(v, e) == [err |-> e, val |-> v]

InitChecks ==
    /\ client = NewClient
    /\ calls = 1
    /\ chunks = <<>>
    /\ op \in {"PullIsApproved", "PullIsMergeable"}
    /\ args \in [repo : Repos, num : {1}]
    /\ pc = "call"
    /\ reqs = <<>>
    /\ resps = <<>>
    /\ out = NoOut
    /\ ret = NoRet
    /\ i = 0
    /\ nextPageStart = 0
    /\ files = <<>>
    /\ version = 0
    /\ srv = [mode |-> "script", page |-> EmptyPage, version |-> 0, merged |-> FALSE, branch |-> TRUE]

\* PullIsApproved that goes on to its request whatever GetProjectKey returns.
PullIsApprovedEnterNoKeyCheck ==
    /\ op = "PullIsApproved"
    /\ pc = "call"
    /\ pc' = "get"
    /\ UNCHANGED <<client, calls, chunks, op, args, reqs, resps, out, ret, i, nextPageStart, files,
                   version, srv>>

\* PullIsApproved up to its request: the project key.
PullIsApprovedEnter ==
    /\ op = "PullIsApproved"
    /\ pc = "call"
    /\ LET k == GetProjectKey(args.repo.Name, args.repo.SanitizedCloneURL) IN
         IF k.err # Nil
         THEN /\ pc' = "done"
              /\ ret' = Result(FALSE, k.err)
         ELSE /\ pc' = "get"
              /\ ret' = ret
    /\ UNCHANGED <<client, calls, chunks, op, args, reqs, resps, out, i, nextPageStart, files,
                   version, srv>>

\* A loop over the reviewers that looks at the first reviewer only.
AnyApprovedFirstOnly(reviewers) ==
    reviewers # <<>> /\ Deref(reviewers[1].approved)

\* for _, reviewer := range pullResp.Reviewers { if *reviewer.Approved { return true } }
AnyApproved(reviewers) ==
    \E j \in 1..Len(reviewers) : Deref(reviewers[j].approved)

\* What PullIsApproved returns for the answer to its GET.
ApprovalStep(resp) ==
    LET r == MakeRequest(resp) IN
        IF r.err # Nil THEN Result(FALSE, r.err)
        ELSE IF ~DecodesAsPullRequest(r.body) THEN Result(FALSE, "parse")
        ELSE IF ~ValidPullRequest(r.body) THEN Result(FALSE, "missing fields")
        ELSE IF AnyApproved(r.body.reviewers) THEN Result(TRUE, Nil)
        ELSE Result(FALSE, Nil)

\* The GET of the pull request and the look at its reviewers.
PullIsApprovedGet ==
    /\ op = "PullIsApproved"
    /\ pc = "get"
    /\ \E resp \in Responses(StatusCodes, ApprovalBodies) :
         /\ reqs' = Append(reqs, Request("GET", "pull-request", None))
         /\ resps' = Append(resps, resp)
         /\ out' = MakeRequest(resp)
         /\ ret' = ApprovalStep(resp)
    /\ pc' = "done"
    /\ UNCHANGED <<client, calls, chunks, op, args, i, nextPageStart, files, version, srv>>

\* PullIsMergeable up to its request: the project key.
PullIsMergeableEnter ==
    /\ op = "PullIsMergeable"
    /\ pc = "call"
    /\ LET k == GetProjectKey(args.repo.Name, args.repo.SanitizedCloneURL) IN
         IF k.err # Nil
         THEN /\ pc' = "done"
              /\ ret' = Result(FALSE, k.err)
         ELSE /\ pc' = "get"
              /\ ret' = ret
    /\ UNCHANGED <<client, calls, chunks, op, args, reqs, resps, out, i, nextPageStart, files,
                   version, srv>>

\* A verdict that looks at the can-merge flag only.
MergeableCanMergeOnly(m) == Deref(m.canMerge)

\* *mergeStatus.CanMerge && !*mergeStatus.Conflicted
Mergeable(m) == Deref(m.canMerge) /\ ~Deref(m.conflicted)

\* What PullIsMergeable returns for the answer to its GET.
MergeableStep(resp) ==
    LET r == MakeRequest(resp) IN
        IF r.err # Nil THEN Result(FALSE, r.err)
        ELSE IF ~DecodesAsMergeStatus(r.body) THEN Result(FALSE, "parse")
        ELSE IF ~ValidMergeStatus(r.body) THEN Result(FALSE, "missing fields")
        ELSE Result(Mergeable(r.body), Nil)

\* The GET of the mergeability report and the verdict.
PullIsMergeableGet ==
    /\ op = "PullIsMergeable"
    /\ pc = "get"
    /\ \E resp \in Responses(StatusCodes, MergeStatuses \cup {Garbage}) :
         /\ reqs' = Append(reqs, Request("GET", "merge", None))
         /\ resps' = Append(resps, resp)
         /\ out' = MakeRequest(resp)
         /\ ret' = MergeableStep(resp)
    /\ pc' = "done"
    /\ UNCHANGED <<client, calls, chunks, op, args, i, nextPageStart, files, version, srv>>

NextChecks ==
    \/ PullIsApprovedEnter
    \/ PullIsApprovedGet
    \/ PullIsMergeableEnter
    \/ PullIsMergeableGet

SpecChecks == InitChecks /\ [][NextChecks]_vars

----------------------------------------------------------------------------
(* Operations without a Bitbucket Server implementation *)

PullNums == {1, 2, 3}

\* The operations whose body is a single return.
StubOps ==
    {"GetFileContent", "GetCloneURL", "GetPullLabels", "DiscardReviews",
     "ReactToComment", "HidePrevCommandComments", "GetTeamNamesForUser"}

InitStubs ==
    /\ client = NewClient
    /\ calls = 1
    /\ chunks = <<>>
    /\ op \in StubOps
    /\ args \in [repo : Repos, num : PullNums]
    /\ pc = "call"
    /\ reqs = <<>>
    /\ resps = <<>>
    /\ out = NoOut
    /\ ret = NoRet
    /\ i = 0
    /\ nextPageStart = 0
    /\ files = <<>>
    /\ version = 0
    /\ srv = [mode |-> "script", page |-> EmptyPage, version |-> 0, merged |-> FALSE, branch |-> TRUE]

\* A return without any request.
Return(o, e) ==
    /\ op = o
    /\ pc = "call"
    /\ pc' = "done"
    /\ ret' = Fail(e)
    /\ UNCHANGED <<client, calls, chunks, op, args, reqs, resps, out, i, nextPageStart, files,
                   version, srv>>

\* return false, []byte{}, fmt.Errorf("not implemented")
GetFileContent == Return("GetFileContent", "notImplemented")

\* return "", fmt.Errorf("not yet implemented")
GetCloneURL == Return("GetCloneURL", "notImplemented")

\* return nil, fmt.Errorf("not yet implemented")
GetPullLabels == Return("GetPullLabels", "notImplemented")

\* // TODO implement
\* return nil
DiscardReviews == Return("DiscardReviews", Nil)

\* return nil
ReactToComment == Return("ReactToComment", Nil)

\* return nil
HidePrevCommandComments == Return("HidePrevCommandComments", Nil)

\* return nil, nil
GetTeamNamesForUser == Return("GetTeamNamesForUser", Nil)

NextStubs ==
    \/ GetFileContent
    \/ GetCloneURL
    \/ GetPullLabels
    \/ DiscardReviews
    \/ ReactToComment
    \/ HidePrevCommandComments
    \/ GetTeamNamesForUser

SpecStubs == InitStubs /\ [][NextStubs]_vars

----------------------------------------------------------------------------
(* Any operation *)

Init == InitFiles \/ InitMerge \/ InitStatus \/ InitComment \/ InitChecks \/ InitStubs

Next ==
    \/ GetModifiedFilesEnter
    \/ GetModifiedFilesFetch
    \/ MergePullEnter
    \/ MergePullRead
    \/ MergePullWrite
    \/ MergePullDelete
    \/ ExternalModify
    \/ UpdateStatus
    \/ NextComment
    \/ NextChecks
    \/ NextStubs

Spec == Init /\ [][Next]_vars

----------------------------------------------------------------------------
(* Several invocations on one Client *)

\* Largest number of invocations made on the client.
MaxCalls == 2

\* A new invocation of operation o with arguments a against server s: its
\* locals are new, its request log is empty.
Start(o, a, s) ==
    /\ op' = o
    /\ args' = a
    /\ srv' = s
    /\ pc' = "call"
    /\ reqs' = <<>>
    /\ resps' = <<>>
    /\ out' = NoOut
    /\ ret' = NoRet
    /\ i' = 0
    /\ nextPageStart' = 0
    /\ files' = <<>>
    /\ chunks' = <<>>
    /\ version' = 0

\* A server with an open pull request that has no comments yet.
FreshServer ==
    [mode |-> "script", page |-> EmptyPage, version |-> 0, merged |-> FALSE,
     branch |-> TRUE, comments |-> <<>>]

\* The caller, after an operation has returned, invokes another operation on
\* the same client.
Invoke ==
    /\ pc = "done"
    /\ calls < MaxCalls
    /\ calls' = calls + 1
    /\ client' = client
    /\ \/ \E a \in [repo : Repos] : Start("GetModifiedFiles", a, FreshServer)
       \/ \E a \in [repo : Repos, deleteOnMerge : BOOLEAN] : Start("MergePull", a, FreshServer)
       \/ \E a \in [status : CommitStatuses, src : {"atlantis/plan"},
                    description : {"Plan succeeded."}, url : StatusURLs] :
              Start("UpdateStatus", a, FreshServer)
       \/ \E a \in [repo : Repos, comment : Comments] : Start("CreateComment", a, FreshServer)
       \/ \E o \in {"PullIsApproved", "PullIsMergeable"}, a \in [repo : Repos, num : {1}] :
              Start(o, a, FreshServer)
       \/ \E o \in StubOps, a \in [repo : Repos, num : PullNums] : Start(o, a, FreshServer)

\* The first invocation is any operation against a server that ends its
\* changes listing.
InitSession == Init /\ srv.mode = "script"

NextSession == Next \/ Invoke

SpecSession == InitSession /\ [][NextSession]_vars

----------------------------------------------------------------------------
(* Properties of MergePull *)

\* The requests of each kind, by their place in the order of issue.
MergePosts == {k \in 1..Len(reqs) : reqs[k].method = "POST" /\ reqs[k].resource = "merge"}
PullGets == {k \in 1..Len(reqs) : reqs[k].method = "GET"}
BranchDeletes == {k \in 1..Len(reqs) : reqs[k].method = "DELETE"}

\* The transport's answer is a success in the eyes of the client.
Succeeded(resp) == ~resp.doErr /\ ~resp.readErr /\ resp.status \in {200, 201, 204}

\* The error the client reports for a failed answer.
ErrorOf(resp) ==
    IF resp.doErr THEN "transport"
    ELSE IF resp.status \notin {200, 201, 204} THEN "status"
    ELSE "read"

\* C1: in every run of MergePull that issues the merge write, exactly one GET
\* of the pull request was issued, before it, exactly one POST merge is issued,
\* and the POST's version parameter is the version in the GET's response.
C1_MergeSequencing ==
    (op = "MergePull" /\ MergePosts # {}) =>
        /\ MergePosts = {2}
        /\ PullGets = {1}
        /\ reqs[1].resource = "pull-request"
        /\ Succeeded(resps[1])
        /\ resps[1].body.kind = "pull"
        /\ reqs[2].arg = resps[1].body.version

\* A finished merge whose read saw version 1.
C1_Witness ==
    /\ op = "MergePull"
    /\ pc = "done"
    /\ MergePosts = {2}
    /\ resps[1].body.version = Some(1)
    /\ srv.merged
    /\ ret.err = Nil

\* The server rejected the merge write as a conflict.
WriteRejected == Len(resps) >= 2 /\ ~resps[2].doErr /\ resps[2].status = 409

\* C5: when the pull request's version changes between the read and the write
\* and the server rejects the write, MergePull returns an error after exactly
\* one read and one write: no second read, no second write, no DELETE.
C5_StaleWriteNotRetried ==
    (op = "MergePull" /\ WriteRejected) =>
        /\ pc = "done"
        /\ ret.err = "status"
        /\ Len(reqs) = 2
        /\ PullGets = {1}
        /\ MergePosts = {2}
        /\ BranchDeletes = {}

\* A rejected write whose version was overtaken after the read, with
\* delete-on-merge asked for.
C5_Witness ==
    /\ op = "MergePull"
    /\ WriteRejected
    /\ resps[1].body.version = Some(version)
    /\ srv.version > version
    /\ args.deleteOnMerge
    /\ pc = "done"

\* The read failed: the request failed, or its body is no pull request, or
\* the version is missing from it.
ReadFailed ==
    /\ Len(resps) >= 1
    /\ \/ ~Succeeded(resps[1])
       \/ resps[1].body.kind # "pull"
       \/ resps[1].body.version = None

\* C6: when MergePull's read fails, cannot be decoded or lacks the version,
\* MergePull returns an error and issues neither the merge write nor a DELETE;
\* it never succeeds with an absent version.
C6_ReadFailureStops ==
    (op = "MergePull" /\ ReadFailed) =>
        /\ pc = "done"
        /\ ret.err # Nil
        /\ Len(reqs) = 1
        /\ MergePosts = {}
        /\ BranchDeletes = {}

\* A read that was answered 200 with a pull request that has no version.
C6_Witness ==
    /\ op = "MergePull"
    /\ Len(resps) = 1
    /\ Succeeded(resps[1])
    /\ resps[1].body.kind = "pull"
    /\ resps[1].body.version = None
    /\ ret.err = "missing fields"

\* C7: a DELETE is issued only if delete-on-merge was asked for and only
\* after the merge write succeeded; there is at most one.
C7_DeleteOnlyAfterMerge ==
    op = "MergePull" =>
        /\ Cardinality(BranchDeletes) <= 1
        /\ \A k \in BranchDeletes :
             /\ args.deleteOnMerge
             /\ k = 3
             /\ MergePosts = {2}
             /\ Succeeded(resps[2])

\* A merge without delete-on-merge that ended well after two requests.
C7_Witness ==
    /\ op = "MergePull"
    /\ ~args.deleteOnMerge
    /\ pc = "done"
    /\ ret.err = Nil
    /\ Len(reqs) = 2
    /\ srv.merged

\* The merge write succeeded and the deletion that followed failed.
DeleteFailed == Len(resps) >= 3 /\ Succeeded(resps[2]) /\ ~Succeeded(resps[3])

\* C8: when the merge write succeeds and the deletion fails, MergePull
\* returns the deletion's error and issues nothing more, the pull request
\* stays merged; and MergePull returns nil only if all its requests succeeded.
C8_DeleteFailureNotRolledBack ==
    op = "MergePull" =>
        /\ DeleteFailed =>
             /\ pc = "done"
             /\ ret.err = ErrorOf(resps[3])
             /\ Len(reqs) = 3
             /\ srv.merged
        /\ (pc = "done" /\ ret.err = Nil) =>
             /\ reqs # <<>>
             /\ \A k \in 1..Len(resps) : Succeeded(resps[k])

\* Merged, the branch still there, an error returned.
C8_Witness ==
    /\ op = "MergePull"
    /\ pc = "done"
    /\ DeleteFailed
    /\ srv.merged
    /\ srv.branch
    /\ ret.err # Nil

----------------------------------------------------------------------------
(* Properties of GetModifiedFiles *)

\* The answer carries a page that has every field of the data model: the
\* current path of each entry, the is-last-page flag and, when the page is
\* not the last, the offset of the next page.
WellFormedPage(resp) ==
    /\ Succeeded(resp)
    /\ resp.body.kind = "changes"
    /\ resp.body.isLastPage # None
    /\ \A e \in 1..Len(resp.body.values) : resp.body.values[e].path # None
    /\ resp.body.isLastPage = Some(FALSE) => resp.body.nextPageStart # None

IsLast(resp) == resp.body.isLastPage = Some(TRUE)

\* The occurrences of paths in the pages 1..n: page k, entry e, t = 1 for the
\* current path and 2 for the prior path of a rename.
EntryPositions == 1..MaxOf({Len(v) : v \in PageValues})
Occurrences(n) ==
    {o \in [page : 1..n, entry : EntryPositions, t : {1, 2}] :
        /\ o.entry <= Len(resps[o.page].body.values)
        /\ o.t = 2 => resps[o.page].body.values[o.entry].srcPath # None}

PathOf(o) ==
    IF o.t = 1 THEN resps[o.page].body.values[o.entry].path[1]
    ELSE resps[o.page].body.values[o.entry].srcPath[1]

\* Occurrence a comes before occurrence b in the listing.
Before(a, b) ==
    \/ a.page < b.page
    \/ a.page = b.page /\ a.entry < b.entry
    \/ a.page = b.page /\ a.entry = b.entry /\ a.t < b.t

\* The first occurrence of path x among the occurrences occ.
FirstOccurrence(x, occ) ==
    CHOOSE o \in occ :
        /\ PathOf(o) = x
        /\ \A q \in occ : PathOf(q) = x => (q = o \/ Before(o, q))

\* fs is the paths of the pages 1..n, each once, in first-seen order.
IsFirstSeenListing(fs, n) ==
    LET occ == Occurrences(n) IN
        /\ {fs[k] : k \in 1..Len(fs)} = {PathOf(o) : o \in occ}
        /\ \A a, b \in 1..Len(fs) :
             a < b => /\ fs[a] # fs[b]
                      /\ Before(FirstOccurrence(fs[a], occ), FirstOccurrence(fs[b], occ))

\* n is the first page to report is-last-page, and the pages up to it are
\* well formed.
FirstLastPage(n) ==
    /\ n \in 1..Len(resps)
    /\ \A k \in 1..n : WellFormedPage(resps[k])
    /\ IsLast(resps[n])
    /\ \A k \in 1..(n - 1) : ~IsLast(resps[k])

\* C2: when the pages served are valid and the N-th is the first to report
\* is-last-page, GetModifiedFiles makes exactly N fetches and returns the
\* paths of the pages 1..N (current and prior paths), without duplicates, in
\* first-seen order.
C2_PaginationStopsAtLastPage ==
    op = "GetModifiedFiles" =>
        \A n \in 1..(MaxVaried + 1) :
            FirstLastPage(n) =>
                /\ pc = "done"
                /\ Len(reqs) = n
                /\ ret.err = Nil
                /\ IsFirstSeenListing(ret.files, n)

\* Three pages, a rename among them, and a path that is listed twice.
C2_Witness ==
    /\ op = "GetModifiedFiles"
    /\ pc = "done"
    /\ FirstLastPage(3)
    /\ Len(files) > Len(ret.files)
    /\ Len(ret.files) = 2
    /\ \E k \in 1..3 : \E e \in 1..Len(resps[k].body.values) :
         resps[k].body.values[e].srcPath # None

\* The first n answers are well-formed pages none of which is the last.
NoLastPageIn(n) ==
    /\ n <= Len(resps)
    /\ \A k \in 1..n : WellFormedPage(resps[k]) /\ ~IsLast(resps[k])

\* C3: when every page is valid and none reports is-last-page,
\* GetModifiedFiles stops after exactly 1000 fetches and returns the paths
\* accumulated, without duplicates, with a nil error.
C3_PaginationSafetyBound ==
    op = "GetModifiedFiles" =>
        /\ Len(reqs) <= maxLoops
        /\ (resps # <<>> /\ Len(resps) < maxLoops /\ NoLastPageIn(Len(resps))) => pc = "loop"
        /\ (Len(resps) >= maxLoops /\ NoLastPageIn(maxLoops)) =>
             /\ pc = "done"
             /\ Len(reqs) = maxLoops
             /\ ret.err = Nil
             /\ IsFirstSeenListing(ret.files, maxLoops)

\* The 1000th page was served, was not the last, and the files came back.
C3_Witness ==
    /\ op = "GetModifiedFiles"
    /\ pc = "done"
    /\ Len(reqs) = maxLoops
    /\ NoLastPageIn(maxLoops)
    /\ ret.err = Nil
    /\ Len(ret.files) = 2
    /\ Len(files) >= maxLoops

\* The fetch failed: the transport, the status, the reading, the decoding or
\* a required field.
FetchFailed(resp) ==
    \/ ~Succeeded(resp)
    \/ resp.body.kind # "changes"
    \/ resp.body.isLastPage = None
    \/ \E e \in 1..Len(resp.body.values) : resp.body.values[e].path = None

\* The error GetModifiedFiles reports for a failed fetch.
FetchErrorOf(resp) ==
    IF ~Succeeded(resp) THEN ErrorOf(resp)
    ELSE IF resp.body.kind # "changes" THEN "parse"
    ELSE "missing fields"

\* C4: when a page fetch fails, on whichever page, GetModifiedFiles issues no
\* further fetch and returns that error and no files.
C4_FetchFailureAborts ==
    op = "GetModifiedFiles" =>
        \A k \in 1..Len(resps) :
            FetchFailed(resps[k]) =>
                /\ k = Len(resps)
                /\ Len(reqs) = k
                /\ pc = "done"
                /\ ret.err = FetchErrorOf(resps[k])
                /\ ret.files = <<>>

\* The third fetch failed after two pages that had files.
C4_Witness ==
    /\ op = "GetModifiedFiles"
    /\ pc = "done"
    /\ Len(resps) = 3
    /\ FetchFailed(resps[3])
    /\ files # <<>>
    /\ ret.err = "missing fields"

----------------------------------------------------------------------------
(* Properties of makeRequest and UpdateStatus *)

LastResp == resps[Len(resps)]

\* C9: makeRequest takes a completed response for a success, and returns its
\* body, exactly when the status is 200, 201 or 204; for every other status
\* it returns an error and no body.
C9_StatusClassification ==
    (resps # <<>> /\ ~LastResp.doErr /\ ~LastResp.readErr) =>
        IF LastResp.status \in {200, 201, 204}
        THEN out.err = Nil /\ out.body = LastResp.body
        ELSE out.err = "status" /\ out.body = NoBody

\* A 204 with an empty body, returned as a success with that body.
C9_Witness ==
    /\ resps # <<>>
    /\ LastResp = HTTP(204, EmptyBody)
    /\ out = [body |-> EmptyBody, err |-> Nil]

\* The state sent to the host.
SentState == reqs[1].arg[1].state

\* C10: UpdateStatus sends INPROGRESS for pending, SUCCESSFUL for success and
\* FAILED for failed, three different strings, and FAILED for any other
\* status; SUCCESSFUL is sent only for success.
C10_StatusMapping ==
    (op = "UpdateStatus" /\ reqs # <<>>) =>
        /\ args.status = "pending" => SentState = "INPROGRESS"
        /\ args.status = "success" => SentState = "SUCCESSFUL"
        /\ args.status = "failed" => SentState = "FAILED"
        /\ args.status \notin {"pending", "success", "failed"} => SentState = "FAILED"
        /\ SentState = "SUCCESSFUL" => args.status = "success"
        /\ Cardinality({BBState(st) : st \in {"pending", "success", "failed"}}) = 3

\* A status that is none of the three was sent as FAILED.
C10_Witness ==
    /\ op = "UpdateStatus"
    /\ pc = "done"
    /\ args.status = "other"
    /\ SentState = "FAILED"

\* The operations the client does not support.
UnsupportedOps == {"GetFileContent", "GetCloneURL", "GetPullLabels", "DiscardReviews"}

\* C11: each of the file content fetch, the clone URL resolution, the pull
\* labels and the review discarding returns an unsupported-operation error at
\* once, and issues no request.
C11_UnsupportedOperations ==
    op \in UnsupportedOps =>
        /\ reqs = <<>>
        /\ pc = "done" => ret.err = "notImplemented"

\* The operations that derive the project key from the clone URL.
KeyedOps ==
    {"GetModifiedFiles", "CreateComment", "PullIsApproved", "PullIsMergeable", "MergePull"}

\* The clone URL has no "/<key>/<name>.git" in it.
NoProjectKey ==
    /\ op \in KeyedOps
    /\ ~ \E j \in 3..Len(args.repo.SanitizedCloneURL) :
           args.repo.SanitizedCloneURL[j] = args.repo.Name \o ".git"

\* C12: when the project key cannot be extracted from the clone URL,
\* GetModifiedFiles, CreateComment, PullIsApproved, PullIsMergeable and
\* MergePull return the derivation error, and no request is ever issued.
C12_KeyFailureNoRequest ==
    NoProjectKey =>
        /\ reqs = <<>>
        /\ pc \in {"call", "post", "done"}
        /\ pc = "post" => op = "CreateComment"
        /\ pc = "done" => ret.err = "projectKey"

\* CreateComment of a three-chunk comment has returned for such a clone URL.
C12_Witness ==
    /\ NoProjectKey
    /\ op = "CreateComment"
    /\ Len(chunks) = 3
    /\ pc = "done"

\* Chunk j of cs opens with start unless it is the first, and closes with end
\* unless it is the last.
Marked(cs, j, end, start) ==
    /\ j > 1 => Slice(cs[j], 0, StrLen(start)) = start
    /\ j < Len(cs) => Slice(cs[j], StrLen(cs[j]) - StrLen(end), StrLen(cs[j])) = end

\* Chunk j of cs without the markers put around it.
Stripped(cs, j, end, start) ==
    Slice(cs[j],
          IF j > 1 THEN StrLen(start) ELSE 0,
          StrLen(cs[j]) - (IF j < Len(cs) THEN StrLen(end) ELSE 0))

\* The first n chunks of cs, stripped, one after the other.
RECURSIVE Joined(_, _, _, _)
Joined(cs, n, end, start) ==
    IF n = 0 THEN <<>>
    ELSE Cat(Joined(cs, n - 1, end, start), Stripped(cs, n, end, start))

\* The chunks cs give comment back and none of them is longer than limit.
RoundTrip(cs, comment, limit, end, start) ==
    /\ \A j \in 1..Len(cs) : Marked(cs, j, end, start)
    /\ Joined(cs, Len(cs), end, start) = comment
    /\ \A j \in 1..Len(cs) : StrLen(cs[j]) <= limit

C14_SplitNoOp ==
    /\ (op = "SplitComment" /\ pc = "done" /\ StrLen(args.comment) <= args.maxSize) =>
           chunks = <<args.comment>>
    /\ (op = "CreateComment" /\ StrLen(args.comment) <= maxCommentLength) =>
           /\ pc # "call" => chunks = <<args.comment>>
           /\ Len(reqs) <= 1
           /\ \A k \in 1..Len(reqs) :
                /\ reqs[k].method = "POST"
                /\ reqs[k].resource = "comments"
                /\ reqs[k].arg = Some(args.comment)
           /\ (pc = "done" /\ ~NoProjectKey) => Len(reqs) = 1

\* A comment of exactly 32768 characters has been posted.
C14_Witness ==
    /\ op = "CreateComment"
    /\ StrLen(args.comment) = maxCommentLength
    /\ pc = "done"
    /\ ret.err = Nil
    /\ Len(reqs) = 1
    /\ srv.comments = <<args.comment>>

\* The answer is a mergeability report with both of its booleans.
ValidReport(resp) ==
    /\ Succeeded(resp)
    /\ resp.body.kind = "merge"
    /\ resp.body.canMerge \in {Some(TRUE), Some(FALSE)}
    /\ resp.body.conflicted \in {Some(TRUE), Some(FALSE)}

\* C15: given a valid mergeability report PullIsMergeable returns true exactly
\* when can-merge is true and conflicted is false; when the request fails or
\* one of the two booleans is absent it returns false and an error.
C15_Mergeable ==
    (op = "PullIsMergeable" /\ pc = "done" /\ resps # <<>>) =>
        /\ ValidReport(resps[1]) =>
              /\ ret.err = Nil
              /\ ret.val <=> (resps[1].body.canMerge = Some(TRUE)
                                /\ resps[1].body.conflicted = Some(FALSE))
        /\ ~Succeeded(resps[1]) =>
              /\ ret.val = FALSE
              /\ ret.err = ErrorOf(resps[1])
        /\ (Succeeded(resps[1]) /\ ~ValidReport(resps[1])) =>
              /\ ret.val = FALSE
              /\ ret.err \in {"parse", "missing fields"}
              /\ resps[1].body.kind = "merge" => ret.err = "missing fields"

\* A report that can be merged but is conflicted: not mergeable, no error.
C15_Witness ==
    /\ op = "PullIsMergeable"
    /\ pc = "done"
    /\ resps # <<>>
    /\ ValidReport(resps[1])
    /\ resps[1].body.canMerge = Some(TRUE)
    /\ resps[1].body.conflicted = Some(TRUE)
    /\ ret = [err |-> Nil, val |-> FALSE]

\* C16: in GetModifiedFiles the first fetch starts at offset 0, every later
\* fetch starts at the next-page-start offset of the page just before it, and
\* a fetch is issued only after the answer to the one before it has been
\* received and validated: never two fetches in flight.
C16_SequentialOffsets ==
    op = "GetModifiedFiles" =>
        /\ Len(resps) = Len(reqs)
        /\ \A k \in 1..Len(reqs) :
             /\ reqs[k].method = "GET"
             /\ reqs[k].resource = "changes"
             /\ k = 1 => reqs[k].arg = Some(0)
             /\ k > 1 =>
                  /\ WellFormedPage(resps[k - 1])
                  /\ ~IsLast(resps[k - 1])
                  /\ reqs[k].arg = resps[k - 1].body.nextPageStart

\* Three fetches, at offsets 0, 25 and 1.
C16_Witness ==
    /\ op = "GetModifiedFiles"
    /\ Len(reqs) = 3
    /\ reqs[1].arg = Some(0)
    /\ reqs[2].arg = Some(25)
    /\ reqs[3].arg = Some(1)
    /\ pc = "done"
    /\ ret.err = Nil

\* The answer is a page that passes the decoding and the validation, says
\* that it is not the last, and carries no next-page-start offset.
NoOffsetPage(resp) ==
    /\ Succeeded(resp)
    /\ resp.body.kind = "changes"
    /\ resp.body.isLastPage = Some(FALSE)
    /\ \A e \in 1..Len(resp.body.values) : resp.body.values[e].path # None
    /\ resp.body.nextPageStart = None

\* C17: GetModifiedFiles never reads the next-page offset of a page that has
\* none: every page it goes on from carried the offset, and a page that is
\* not the last and has no offset ends the operation with an error value,
\* not with a crash and not with a further fetch at an undefined offset.
C17_AbsentOffsetIsAnError ==
    op = "GetModifiedFiles" =>
        /\ pc # "panic"
        /\ \A k \in 1..Len(resps) :
             NoOffsetPage(resps[k]) =>
                /\ k = Len(reqs)
                /\ pc = "done"
                /\ ret.err # Nil

\* C18: CreateComment posts the chunks in their order, one POST per chunk,
\* each only after the POST before it succeeded; at the first failed POST it
\* returns that error and posts no later chunk, and the chunks posted before
\* stay posted.
C18_ChunksPostedInOrder ==
    op = "CreateComment" =>
        /\ Len(resps) = Len(reqs)
        /\ Len(reqs) <= Len(chunks)
        /\ \A k \in 1..Len(reqs) :
             /\ reqs[k].method = "POST"
             /\ reqs[k].resource = "comments"
             /\ reqs[k].arg = Some(chunks[k])
             /\ k < Len(reqs) => Succeeded(resps[k])
             /\ ~Succeeded(resps[k]) =>
                  /\ k = Len(reqs)
                  /\ pc = "done"
                  /\ ret.err = ErrorOf(resps[k])
             /\ k < Len(reqs) => srv.comments[k] = chunks[k]
        /\ Len(srv.comments) \in {Len(reqs) - 1, Len(reqs)}
        /\ (pc = "done" /\ ret.err = Nil) => Len(reqs) = Len(chunks)

\* The second of three chunks was refused: the first stays posted, the third
\* is never sent.
C18_Witness ==
    /\ op = "CreateComment"
    /\ pc = "done"
    /\ Len(chunks) = 3
    /\ Len(reqs) = 2
    /\ resps[2].status = 500
    /\ ret.err = "status"
    /\ srv.comments = <<chunks[1]>>

\* The answer is a pull request snapshot with its version.
ValidSnapshot(resp) ==
    /\ Succeeded(resp)
    /\ resp.body.kind = "pull"
    /\ resp.body.version # None

\* C19: given a valid pull request snapshot PullIsApproved reports approved
\* exactly when at least one reviewer entry has approved = true (so not with
\* no reviewers, and not with reviewers none of whom approves); on a failure
\* of the request, of the decoding or of the schema it reports not approved
\* and an error.
C19_Approved ==
    (op = "PullIsApproved" /\ pc = "done" /\ resps # <<>>) =>
        /\ ValidSnapshot(resps[1]) =>
              /\ ret.err = Nil
              /\ ret.val <=> (\E j \in 1..Len(resps[1].body.reviewers) :
                                 resps[1].body.reviewers[j].approved = Some(TRUE))
        /\ ~Succeeded(resps[1]) =>
              /\ ret.val = FALSE
              /\ ret.err = ErrorOf(resps[1])
        /\ (Succeeded(resps[1]) /\ ~ValidSnapshot(resps[1])) =>
              /\ ret.val = FALSE
              /\ ret.err = (IF resps[1].body.kind = "pull" THEN "missing fields" ELSE "parse")

\* Two reviewers, of whom only the second approves: approved.
C19_Witness ==
    /\ op = "PullIsApproved"
    /\ pc = "done"
    /\ resps # <<>>
    /\ ValidSnapshot(resps[1])
    /\ Len(resps[1].body.reviewers) = 2
    /\ resps[1].body.reviewers[1].approved = Some(FALSE)
    /\ resps[1].body.reviewers[2].approved = Some(TRUE)
    /\ ret = [err |-> Nil, val |-> TRUE]

\* The first request of the invocation, as its own arguments and the values
\* given to NewClient determine it.
FirstRequest ==
    CASE op = "GetModifiedFiles" -> [method |-> "GET", resource |-> "changes", arg |-> Some(0)]
      [] op = "MergePull" -> [method |-> "GET", resource |-> "pull-request", arg |-> None]
      [] op = "PullIsApproved" -> [method |-> "GET", resource |-> "pull-request", arg |-> None]
      [] op = "PullIsMergeable" -> [method |-> "GET", resource |-> "merge", arg |-> None]
      [] op = "CreateComment" ->
            [method |-> "POST", resource |-> "comments",
             arg |-> Some(IF StrLen(args.comment) <= maxCommentLength
                          THEN args.comment ELSE chunks[1])]
      [] op = "UpdateStatus" ->
            [method |-> "POST", resource |-> "build-status",
             arg |-> Some([key |-> args.src,
                           url |-> IF args.url = "" THEN AtlantisURL ELSE args.url,
                           state |-> Deref(reqs[1].arg).state,
                           description |-> args.description])]

====
